---- MODULE Spec2Model ----
(***************************************************************************)
(* Model of the Bun Docs MCP stdio/HTTP bridge.                            *)
(*                                                                         *)
(*   proxy/src/http/mod.rs       BunDocsClient   (forward_request,         *)
(*                                                parse_sse_response)      *)
(*   proxy/src/transport/mod.rs  StdioTransport  (read_message,            *)
(*                                                write_message)           *)
(*                                                                         *)
(* Text is a sequence of lexemes.  A lexeme is one character, except that  *)
(* "R", "E" and "I" stand for the JSON string literals "result", "error"   *)
(* and "id", and "n" stands for the literal null.                          *)
(***************************************************************************)
EXTENDS Integers, Sequences, FiniteSets, TLC

\* ------------------------------------------------------------------ bounds
\* Longest SSE stream (number of stream items) a backend response carries.
MaxEvents == 3
\* Largest number of input lines on standard input.
MaxLines == 2

\* ------------------------------------------------------- program constants
\* http/mod.rs:9
REQUEST_TIMEOUT_SECS == 5

\* -------------------------------------------------------------- JSON values
\* serde_json::Value, restricted to null, numbers, strings and objects.
JNull == [kind |-> "null"]
JNum(n) == [kind |-> "number", n |-> n]
JStr(s) == [kind |-> "string", s |-> s]
JObj(f) == [kind |-> "object", members |-> f]

\* The empty member map.
NoMembers == [k \in {} |-> JNull]

\* Value::get(key): Some for an object that has the key, whatever the value
\* stored under it; None for a missing key and for every non-object.
GetIsSome(v, key) == v.kind = "object" /\ key \in DOMAIN v.members

\* ------------------------------------------------------------- JSON parsing
IsWs(c) == c \in {" ", "\t", "\n", "\r"}

Digits == {"1", "2"}

DigitVal(c) == IF c = "1" THEN 1 ELSE 2

\* The string literals of the lexeme alphabet and the strings they denote.
StrLexemes == {"R", "E", "I"}

StrOf(c) == CASE c = "R" -> "result" [] c = "E" -> "error" [] OTHER -> "id"

ParseFail == [ok |-> FALSE]

ParseOk(v, next) == [ok |-> TRUE, val |-> v, next |-> next]

RECURSIVE SkipWs(_, _)
SkipWs(t, i) == IF i <= Len(t) /\ IsWs(t[i]) THEN SkipWs(t, i + 1) ELSE i

RECURSIVE ParseDigits(_, _, _)
ParseDigits(t, i, acc) ==
    IF i <= Len(t) /\ t[i] \in Digits
    THEN ParseDigits(t, i + 1, 10 * acc + DigitVal(t[i]))
    ELSE ParseOk(JNum(acc), i)

RECURSIVE ParseValue(_, _), ParseMembers(_, _, _)
\* One JSON value starting at or after position i (leading whitespace skipped).
ParseValue(t, i) ==
    LET j == SkipWs(t, i) IN
    IF j > Len(t) THEN ParseFail
    ELSE CASE t[j] = "n" -> ParseOk(JNull, j + 1)
           [] t[j] \in Digits -> ParseDigits(t, j, 0)
           [] t[j] \in StrLexemes -> ParseOk(JStr(StrOf(t[j])), j + 1)
           [] t[j] = "{" ->
                LET k == SkipWs(t, j + 1) IN
                IF k <= Len(t) /\ t[k] = "}"
                THEN ParseOk(JObj(NoMembers), k + 1)
                ELSE ParseMembers(t, k, NoMembers)
           [] OTHER -> ParseFail

\* The members of an object, position i at the key of the next member; a
\* repeated key keeps the last value (serde_json's Map::insert).
ParseMembers(t, i, f) ==
    IF i > Len(t) \/ (i <= Len(t) /\ t[i] \notin StrLexemes) THEN ParseFail
    ELSE LET c == SkipWs(t, i + 1) IN
         IF c > Len(t) \/ (c <= Len(t) /\ t[c] # ":") THEN ParseFail
         ELSE LET v == ParseValue(t, c + 1) IN
              IF ~v.ok THEN ParseFail
              ELSE LET e == SkipWs(t, v.next)
                       g == (StrOf(t[i]) :> v.val) @@ f
                   IN  IF e > Len(t) THEN ParseFail
                       ELSE IF t[e] = "}" THEN ParseOk(JObj(g), e + 1)
                       ELSE IF t[e] = "," THEN ParseMembers(t, SkipWs(t, e + 1), g)
                       ELSE ParseFail

\* serde_json::from_str: exactly one value, whitespace around it allowed,
\* anything else after it is an error.
from_str(t) ==
    LET v == ParseValue(t, 1) IN
    IF v.ok /\ SkipWs(t, v.next) > Len(t)
    THEN [ok |-> TRUE, val |-> v.val]
    ELSE ParseFail

\* --------------------------------------------------------- JSON serializing
KeyOrder == <<"error", "id", "result">>

LexOf(s) == CASE s = "result" -> "R" [] s = "error" -> "E" [] OTHER -> "I"

DigitChar(d) == IF d = 1 THEN "1" ELSE "2"

RECURSIVE NumText(_)
NumText(n) ==
    IF n < 10 THEN <<DigitChar(n)>>
    ELSE NumText(n \div 10) \o <<DigitChar(n % 10)>>

RECURSIVE to_string(_), MembersText(_, _, _)
\* serde_json::to_string: compact, object members in key order.
to_string(v) ==
    CASE v.kind = "null" -> <<"n">>
      [] v.kind = "number" -> NumText(v.n)
      [] v.kind = "string" -> <<LexOf(v.s)>>
      [] OTHER -> <<"{">> \o MembersText(v.members, 1, TRUE) \o <<"}">>

MembersText(f, i, first) ==
    IF i > Len(KeyOrder) THEN <<>>
    ELSE IF KeyOrder[i] \notin DOMAIN f THEN MembersText(f, i + 1, first)
    ELSE (IF first THEN <<>> ELSE <<",">>)
         \o <<LexOf(KeyOrder[i]), ":">> \o to_string(f[KeyOrder[i]])
         \o MembersText(f, i + 1, FALSE)

\* ------------------------------------------------------ backend behaviours
\* The data of the SSE events a backend sends: empty, not JSON, JSON with
\* neither key, a result, an error, and a result whose value is null.
DataEmpty == <<>>
DataMalformed == <<"x">>
DataPlain == <<"{", "}">>
DataResult == <<"{", "R", ":", "1", "}">>
DataError == <<"{", "E", ":", "n", "}">>
DataNullResult == <<"{", "I", ":", "1", ",", "R", ":", "n", "}">>

DataTexts ==
    {DataEmpty, DataMalformed, DataPlain, DataResult, DataError, DataNullResult}

\* One item of event_stream: Ok(event) or Err(e), e a connection failure or
\* the request timeout expiring while the body is read.
OkEvent(d) == [ok |-> TRUE, data |-> d]
ErrEvent(why) == [ok |-> FALSE, why |-> why]

StreamItems == {OkEvent(d) : d \in DataTexts} \cup {ErrEvent("io"), ErrEvent("timeout")}

RECURSIVE SeqsUpTo(_, _)
SeqsUpTo(S, n) ==
    IF n = 0 THEN {<<>>}
    ELSE LET shorter == SeqsUpTo(S, n - 1) IN
         shorter \cup {Append(q, x) : q \in {r \in shorter : Len(r) = n - 1}, x \in S}

Streams == SeqsUpTo(StreamItems, MaxEvents)

\* The content-type header: absent, not visible ASCII (to_str fails), or a
\* value, given as its tokens.
NoHeader == [present |-> FALSE, ascii |-> TRUE, value |-> <<>>]
Header(v) == [present |-> TRUE, ascii |-> TRUE, value |-> v]
OpaqueHeader(v) == [present |-> TRUE, ascii |-> FALSE, value |-> v]

SseHeaders ==
    {Header(<<"text/event-stream">>),
     Header(<<"text/event-stream", ";", "charset=utf-8">>)}

OtherHeaders ==
    {NoHeader, Header(<<"application/json">>), Header(<<"Text/Event-Stream">>),
     OpaqueHeader(<<"text/event-stream">>)}

\* The body read as a whole: its text, or a failure to read it.
BodyText(t) == [read |-> TRUE, text |-> t]
BodyUnreadable == [read |-> FALSE]

Bodies == {BodyText(t) : t \in DataTexts \cup {<<"R">>}} \cup {BodyUnreadable}

SuccessStatuses == {200}
FailureStatuses == {404, 500}

\* A response is its status, its content-type header and its body, the body
\* seen as a whole (body) and as the SSE stream it decodes to (events).
SseResponses(streams) ==
    [status : SuccessStatuses, content_type : SseHeaders,
     body : {BodyText(DataMalformed)}, events : streams]

DirectResponses ==
    [status : SuccessStatuses, content_type : OtherHeaders, body : Bodies,
     events : {<<>>, <<OkEvent(DataResult)>>}]

FailedResponses ==
    [status : FailureStatuses, content_type : {Header(<<"text/event-stream">>), NoHeader},
     body : {BodyText(DataResult), BodyText(DataMalformed), BodyUnreadable},
     events : {<<OkEvent(DataResult)>>}]

Responses == SseResponses(Streams) \cup DirectResponses \cup FailedResponses

\* send() itself failing: no connection, or the timeout expiring first.
SendFailures == {[failed |-> "connect"], [failed |-> "timeout"]}

\* ------------------------------------------------------------ BunDocsClient
Ok(v) == [ok |-> TRUE, value |-> v]
ErrSend(why) == [ok |-> FALSE, kind |-> "send", cause |-> why]
ErrStatus(status, text) == [ok |-> FALSE, kind |-> "status", status |-> status, text |-> text]
ErrDecode == [ok |-> FALSE, kind |-> "decode"]
ErrNoResponse == [ok |-> FALSE, kind |-> "no_response"]

UnknownError == <<"unknown error">>

\* A call of forward_request about to send.
NewCall(request) ==
    [pc |-> "send", request |-> request, posts |-> <<>>, response |-> <<>>,
     consumed |-> 0, json_response |-> <<>>, result |-> <<>>]

Return(c, r) == [c EXCEPT !.pc = "done", !.result = <<r>>]

\* Mutant of SendOp: the POST is issued twice, the second one left in flight.
SendOp_PostsTwice(c, be) ==
    LET post == [body |-> to_string(c.request), timeout |-> REQUEST_TIMEOUT_SECS]
        sent == [c EXCEPT !.posts = @ \o <<post, post>>]
    IN  IF "failed" \in DOMAIN be
        THEN Return(sent, ErrSend(be.failed))
        ELSE [sent EXCEPT !.pc = "status", !.response = <<be>>]

\* Mutant of SendOp: the request is rewritten before it is posted, its id
\* replaced by null.
SendOp_RewritesId(c, be) ==
    LET rewritten == JObj([k \in DOMAIN c.request.members |-> JNull])
        sent == [c EXCEPT !.posts = Append(@, [body |-> to_string(rewritten),
                                               timeout |-> REQUEST_TIMEOUT_SECS])]
    IN  IF "failed" \in DOMAIN be
        THEN Return(sent, ErrSend(be.failed))
        ELSE [sent EXCEPT !.pc = "status", !.response = <<be>>]

\* The POST: the request as JSON body, bounded by the request timeout.
SendOp(c, be) ==
    LET sent == [c EXCEPT !.posts = Append(@, [body |-> to_string(c.request),
                                               timeout |-> REQUEST_TIMEOUT_SECS])]
    IN  IF "failed" \in DOMAIN be
        THEN Return(sent, ErrSend(be.failed))
        ELSE [sent EXCEPT !.pc = "status", !.response = <<be>>]

is_success(status) == status >= 200 /\ status < 300

\* Mutant of StatusOp: a non-success status sends the request again.
StatusOp_Retries(c) ==
    IF ~is_success(c.response[1].status)
    THEN [c EXCEPT !.pc = "send", !.response = <<>>]
    ELSE [c EXCEPT !.pc = "content_type"]

\* Mutant of StatusOp: the status is not looked at.
StatusOp_Unchecked(c) == [c EXCEPT !.pc = "content_type"]

StatusOp(c) ==
    LET r == c.response[1] IN
    IF ~is_success(r.status)
    THEN Return(c, ErrStatus(r.status, IF r.body.read THEN r.body.text ELSE UnknownError))
    ELSE [c EXCEPT !.pc = "content_type"]

\* Mutant of ContentTypeOf: a header that is not visible ASCII is still read.
ContentTypeOf_Lossy(r) ==
    IF r.content_type.present THEN r.content_type.value ELSE <<>>

\* headers().get("content-type").and_then(to_str().ok()).unwrap_or("")
ContentTypeOf(r) ==
    IF r.content_type.present /\ r.content_type.ascii THEN r.content_type.value ELSE <<>>

Contains(value, token) == \E i \in 1..Len(value) : value[i] = token

ContentTypeOp(c) ==
    IF Contains(ContentTypeOf(c.response[1]), "text/event-stream")
    THEN [c EXCEPT !.pc = "sse", !.consumed = 0, !.json_response = <<>>]
    ELSE [c EXCEPT !.pc = "json"]

\* response.json(): read the whole body, parse it as one value.
JsonOp(c) ==
    LET b == c.response[1].body IN
    IF ~b.read THEN Return(c, ErrDecode)
    ELSE LET p == from_str(b.text) IN
         IF p.ok THEN Return(c, Ok(p.val)) ELSE Return(c, ErrDecode)

\* The test that makes a parsed value the JSON-RPC response.
IsTerminal(parsed) == GetIsSome(parsed, "result") \/ GetIsSome(parsed, "error")

\* Mutant of SseNextOp: the loop does not break at the JSON-RPC response.
SseNextOp_KeepsReading(c) ==
    LET events == c.response[1].events IN
    IF c.consumed = Len(events) THEN [c EXCEPT !.pc = "sse_end"]
    ELSE LET item == events[c.consumed + 1]
             took == [c EXCEPT !.consumed = @ + 1]
         IN  IF ~item.ok THEN [took EXCEPT !.pc = "sse_end"]
             ELSE IF item.data = <<>> THEN took
             ELSE LET p == from_str(item.data) IN
                  IF p.ok /\ IsTerminal(p.val)
                  THEN [took EXCEPT !.json_response = <<p.val>>]
                  ELSE took

\* Mutant of SseNextOp: data that is not JSON ends the loop.
SseNextOp_AbortsOnMalformed(c) ==
    LET events == c.response[1].events IN
    IF c.consumed = Len(events) THEN [c EXCEPT !.pc = "sse_end"]
    ELSE LET item == events[c.consumed + 1]
             took == [c EXCEPT !.consumed = @ + 1]
         IN  IF ~item.ok THEN [took EXCEPT !.pc = "sse_end"]
             ELSE IF item.data = <<>> THEN took
             ELSE LET p == from_str(item.data) IN
                  IF ~p.ok THEN [took EXCEPT !.pc = "sse_end"]
                  ELSE IF IsTerminal(p.val)
                  THEN [took EXCEPT !.json_response = <<p.val>>, !.pc = "sse_end"]
                  ELSE took

\* Mutant of SseNextOp: a read error is logged and the loop goes on.
SseNextOp_IgnoresReadError(c) ==
    LET events == c.response[1].events IN
    IF c.consumed = Len(events) THEN [c EXCEPT !.pc = "sse_end"]
    ELSE LET item == events[c.consumed + 1]
             took == [c EXCEPT !.consumed = @ + 1]
         IN  IF ~item.ok THEN took
             ELSE IF item.data = <<>> THEN took
             ELSE LET p == from_str(item.data) IN
                  IF p.ok /\ IsTerminal(p.val)
                  THEN [took EXCEPT !.json_response = <<p.val>>, !.pc = "sse_end"]
                  ELSE took

\* One iteration of the while-let loop of parse_sse_response.
SseNextOp(c) ==
    LET events == c.response[1].events IN
    IF c.consumed = Len(events) THEN [c EXCEPT !.pc = "sse_end"]
    ELSE LET item == events[c.consumed + 1]
             took == [c EXCEPT !.consumed = @ + 1]
         IN  IF ~item.ok THEN [took EXCEPT !.pc = "sse_end"]
             ELSE IF item.data = <<>> THEN took
             ELSE LET p == from_str(item.data) IN
                  IF p.ok /\ IsTerminal(p.val)
                  THEN [took EXCEPT !.json_response = <<p.val>>, !.pc = "sse_end"]
                  ELSE took

\* Mutant of SseEndOp: a stream without a response yields an empty object.
SseEndOp_Synthesizes(c) ==
    IF c.json_response # <<>> THEN Return(c, Ok(c.json_response[1]))
    ELSE Return(c, Ok(JObj(NoMembers)))

\* json_response.ok_or_else(...)
SseEndOp(c) ==
    IF c.json_response # <<>> THEN Return(c, Ok(c.json_response[1]))
    ELSE Return(c, ErrNoResponse)

\* The step of forward_request at c's position.
ClientStep(c) ==
    CASE c.pc = "status" -> StatusOp(c)
      [] c.pc = "content_type" -> ContentTypeOp(c)
      [] c.pc = "json" -> JsonOp(c)
      [] c.pc = "sse" -> SseNextOp(c)
      [] c.pc = "sse_end" -> SseEndOp(c)
      [] OTHER -> c

RECURSIVE RunToEnd(_)
RunToEnd(c) == IF c.pc \in {"done", "send"} THEN c ELSE RunToEnd(ClientStep(c))

\* forward_request from call to return, against backend behaviour be.
forward_request(request, be) == RunToEnd(SendOp(NewCall(request), be))

\* ----------------------------------------------------------- StdioTransport
RECURSIVE FirstNewline(_, _)
\* Position of the first line terminator at or after i, 0 when there is none.
FirstNewline(s, i) ==
    IF i > Len(s) THEN 0
    ELSE IF s[i] = "\n" THEN i
    ELSE FirstNewline(s, i + 1)

\* BufReader::read_line on input s that ends in end-of-stream ("eof") or in a
\* read failure ("ioerr"): the bytes up to and including the next "\n", or up
\* to end-of-stream; a failure met before either is the error.
read_line(s, end) ==
    LET k == FirstNewline(s, 1) IN
    IF k > 0 THEN [ok |-> TRUE, line |-> SubSeq(s, 1, k), rest |-> SubSeq(s, k + 1, Len(s))]
    ELSE IF end = "ioerr" THEN [ok |-> FALSE, rest |-> <<>>]
    ELSE [ok |-> TRUE, line |-> s, rest |-> <<>>]

RECURSIVE trim_start(_), trim_end(_)
trim_start(t) == IF t # <<>> /\ IsWs(Head(t)) THEN trim_start(Tail(t)) ELSE t
trim_end(t) ==
    IF t # <<>> /\ IsWs(t[Len(t)]) THEN trim_end(SubSeq(t, 1, Len(t) - 1)) ELSE t

\* str::trim
trim(t) == trim_end(trim_start(t))

\* Option<String>
None == <<>>
Some(t) == <<t>>

\* Mutant of read_message: a line that is empty after trimming is returned.
read_message_ReturnsBlank(s, end) ==
    LET r == read_line(s, end) IN
    IF ~r.ok THEN [ok |-> FALSE, rest |-> r.rest]
    ELSE IF Len(r.line) = 0 THEN [ok |-> TRUE, msg |-> None, rest |-> r.rest]
    ELSE [ok |-> TRUE, msg |-> Some(trim(r.line)), rest |-> r.rest]

\* read_message on input s: the result and the input left unread.
read_message(s, end) ==
    LET r == read_line(s, end) IN
    IF ~r.ok THEN [ok |-> FALSE, rest |-> r.rest]
    ELSE IF Len(r.line) = 0 THEN [ok |-> TRUE, msg |-> None, rest |-> r.rest]
    ELSE LET line == trim(r.line) IN
         IF line = <<>> THEN [ok |-> TRUE, msg |-> None, rest |-> r.rest]
         ELSE [ok |-> TRUE, msg |-> Some(line), rest |-> r.rest]

\* Where a write_message call fails, if it does.
WriteFailures == {"none", "write", "newline", "flush"}

\* Mutant of write_message: the line terminator is not written.
write_message_NoNewline(out, buf, message, fail) ==
    CASE fail = "write" -> [ok |-> FALSE, out |-> out, buf |-> buf]
      [] fail = "newline" -> [ok |-> FALSE, out |-> out, buf |-> buf \o message]
      [] fail = "flush" -> [ok |-> FALSE, out |-> out, buf |-> buf \o message]
      [] OTHER -> [ok |-> TRUE, out |-> out \o buf \o message, buf |-> <<>>]

\* Mutant of write_message: the output is left in the buffer, not flushed.
write_message_NoFlush(out, buf, message, fail) ==
    CASE fail = "write" -> [ok |-> FALSE, out |-> out, buf |-> buf]
      [] fail = "newline" -> [ok |-> FALSE, out |-> out, buf |-> buf \o message]
      [] fail = "flush" -> [ok |-> FALSE, out |-> out, buf |-> buf \o message \o <<"\n">>]
      [] OTHER -> [ok |-> TRUE, out |-> out, buf |-> buf \o message \o <<"\n">>]

\* write_message on flushed output out and pending output buf: write_all of
\* the message, write_all of "\n", flush; fail names the step that fails.
write_message(out, buf, message, fail) ==
    CASE fail = "write" -> [ok |-> FALSE, out |-> out, buf |-> buf]
      [] fail = "newline" -> [ok |-> FALSE, out |-> out, buf |-> buf \o message]
      [] fail = "flush" -> [ok |-> FALSE, out |-> out, buf |-> buf \o message \o <<"\n">>]
      [] OTHER -> [ok |-> TRUE, out |-> out \o buf \o message \o <<"\n">>, buf |-> <<>>]

\* ------------------------------------------------------------------- inputs
\* The lines of standard input, without their terminator: an empty line, a
\* whitespace-only line, a request, a request with padding and a CR.
LineBlank == <<>>
LineSpaces == <<" ", "\r">>
LineRequest1 == <<"{", "I", ":", "1", "}">>
LineRequest2 == <<" ", "{", "I", ":", "2", "}", "\r">>

BlankLines == {LineBlank, LineSpaces}
RequestLines == {LineRequest1, LineRequest2}
LineBodies == BlankLines \cup RequestLines

RECURSIVE JoinLines(_)
\* The lines, each followed by its terminator.
JoinLines(ls) == IF ls = <<>> THEN <<>> ELSE Head(ls) \o <<"\n">> \o JoinLines(Tail(ls))

\* Standard input: up to MaxLines lines, the last one with or without its
\* terminator.
Inputs ==
    LET whole == {JoinLines(ls) : ls \in SeqsUpTo(LineBodies, MaxLines)} IN
    whole \cup {SubSeq(t, 1, Len(t) - 1) : t \in whole \ {<<>>}}

\* The requests forward_request is handed: the values of the request lines.
Requests == {from_str(trim(b)).val : b \in RequestLines}

Backend == Responses \cup SendFailures

\* The backend behaviours the relay is run against: those of Backend whose
\* SSE stream has at most one item.
RelayBackend ==
    SseResponses(SeqsUpTo(StreamItems, 1)) \cup DirectResponses \cup FailedResponses
    \cup SendFailures

\* ------------------------------------------------ the extension (lib.rs)
UPDATE_CHECK_INTERVAL_SECS == 86400

CONTEXT_SERVER_ID == "bun-docs-mcp"
PROXY_REPO == "kjanat/bun-docs-mcp-proxy"
PROXY_DIR == "bun-docs-mcp-proxy"

ARCHIVE_LINUX_X64 == "bun-docs-mcp-proxy-linux-x86_64.tar.gz"
ARCHIVE_LINUX_ARM64 == "bun-docs-mcp-proxy-linux-aarch64.tar.gz"
ARCHIVE_MACOS_X64 == "bun-docs-mcp-proxy-macos-x86_64.tar.gz"
ARCHIVE_MACOS_ARM64 == "bun-docs-mcp-proxy-macos-aarch64.tar.gz"
ARCHIVE_WINDOWS_X64 == "bun-docs-mcp-proxy-windows-x86_64.zip"
ARCHIVE_WINDOWS_ARM64 == "bun-docs-mcp-proxy-windows-aarch64.zip"

\* A failed Result<_, String>, by the message it carries.
Err(message) == [ok |-> FALSE, error |-> message]

\* zed::current_platform(): the host's (os, architecture).  A supported
\* Unix host, a supported Windows host, an unsupported one.
Platforms == {<<"Linux", "X8664">>, <<"Windows", "Aarch64">>, <<"Mac", "X86">>}

get_platform_archive_name(platform) ==
    CASE platform = <<"Linux", "X8664">> -> Ok(ARCHIVE_LINUX_X64)
      [] platform = <<"Linux", "Aarch64">> -> Ok(ARCHIVE_LINUX_ARM64)
      [] platform = <<"Mac", "X8664">> -> Ok(ARCHIVE_MACOS_X64)
      [] platform = <<"Mac", "Aarch64">> -> Ok(ARCHIVE_MACOS_ARM64)
      [] platform = <<"Windows", "X8664">> -> Ok(ARCHIVE_WINDOWS_X64)
      [] platform = <<"Windows", "Aarch64">> -> Ok(ARCHIVE_WINDOWS_ARM64)
      [] OTHER -> Err("Unsupported platform")

get_binary_name(platform) ==
    IF platform[1] = "Windows" THEN "bun-docs-mcp-proxy.exe" ELSE "bun-docs-mcp-proxy"

\* The type download_file is told to extract, from the archive's name.
DownloadedFileType(archive_name) ==
    IF archive_name \in {ARCHIVE_WINDOWS_X64, ARCHIVE_WINDOWS_ARM64} THEN "Zip"
    ELSE IF archive_name \in {ARCHIVE_LINUX_X64, ARCHIVE_LINUX_ARM64,
                              ARCHIVE_MACOS_X64, ARCHIVE_MACOS_ARM64} THEN "GzipTar"
    ELSE "Uncompressed"

\* ---- version texts: sequences of characters
VersionDigits == {"0", "1", "9"}
VersionDigitVal(c) == CASE c = "0" -> 0 [] c = "1" -> 1 [] OTHER -> 9

V_0_1_9 == <<"0", ".", "1", ".", "9">>
V_0_1_10 == <<"0", ".", "1", ".", "1", "0">>
V_0_1 == <<"0", ".", "1">>

RECURSIVE trim_start_matches(_, _)
trim_start_matches(t, c) ==
    IF t # <<>> /\ Head(t) = c THEN trim_start_matches(Tail(t), c) ELSE t

RECURSIVE SplitOn(_, _, _)
\* The pieces of t between the separators, cur being the piece in progress.
SplitOn(t, sep, cur) ==
    IF t = <<>> THEN <<cur>>
    ELSE IF Head(t) = sep THEN <<cur>> \o SplitOn(Tail(t), sep, <<>>)
    ELSE SplitOn(Tail(t), sep, Append(cur, Head(t)))

\* A semver numeric identifier: digits, no leading zero.
IsNumericIdentifier(p) ==
    /\ p # <<>>
    /\ \A i \in 1..Len(p) : p[i] \in VersionDigits
    /\ Len(p) > 1 => p[1] # "0"

RECURSIVE NumericValue(_, _)
NumericValue(p, acc) ==
    IF p = <<>> THEN acc ELSE NumericValue(Tail(p), 10 * acc + VersionDigitVal(Head(p)))

\* semver::Version::parse on the texts of the model (none has a
\* pre-release or build part): MAJOR.MINOR.PATCH.
Version_parse(t) ==
    LET parts == SplitOn(t, ".", <<>>) IN
    IF Len(parts) = 3 /\ \A i \in 1..3 : IsNumericIdentifier(parts[i])
    THEN Ok([i \in 1..3 |-> NumericValue(parts[i], 0)])
    ELSE Err("unexpected character or end of input")

\* a > b on versions: major, then minor, then patch.
VersionGreater(a, b) ==
    \/ a[1] > b[1]
    \/ a[1] = b[1] /\ a[2] > b[2]
    \/ a[1] = b[1] /\ a[2] = b[2] /\ a[3] > b[3]

RECURSIVE split_whitespace(_, _)
\* The maximal runs of non-whitespace of t, cur being the run in progress.
split_whitespace(t, cur) ==
    IF t = <<>> THEN (IF cur = <<>> THEN <<>> ELSE <<cur>>)
    ELSE IF IsWs(Head(t))
         THEN (IF cur = <<>> THEN <<>> ELSE <<cur>>) \o split_whitespace(Tail(t), <<>>)
         ELSE split_whitespace(Tail(t), Append(cur, Head(t)))

\* ---- what is at the binary's path
Absent == [kind |-> "absent"]
Directory == [kind |-> "dir"]
\* fs::metadata fails there with an error other than NotFound.
Inaccessible == [kind |-> "inaccessible"]
\* A file, with what running it with --version does.
File(run) == [kind |-> "file", run |-> run]

CannotRun == [spawned |-> FALSE, success |-> FALSE, stdout |-> <<>>]
ExitsWithError == [spawned |-> TRUE, success |-> FALSE, stdout |-> <<>>]
Prints(text) == [spawned |-> TRUE, success |-> TRUE, stdout |-> text]
\* The output of a proxy binary of the given version.
VersionLine(version) == <<"bun-docs-mcp-proxy", " ">> \o version \o <<"\n">>

\* The binaries that may be at the path from an earlier session.
InstalledBinaries ==
    {File(CannotRun), File(ExitsWithError), File(Prints(<<"\n">>)),
     File(Prints(VersionLine(V_0_1_9))), File(Prints(VersionLine(V_0_1_10))),
     File(Prints(VersionLine(<<"v">> \o V_0_1_9))), File(Prints(VersionLine(V_0_1)))}

get_binary_version(at_path) ==
    IF at_path.kind # "file" \/ ~at_path.run.spawned
    THEN Err("Failed to run binary --version")
    ELSE IF ~at_path.run.success THEN Err("Binary --version exited with error")
    ELSE LET words == split_whitespace(at_path.run.stdout, <<>>) IN
         IF words = <<>> THEN Err("Failed to parse version output")
         ELSE Ok(words[Len(words)])

\* ---- the latest GitHub release
Release(version, assets) == [version |-> version, assets |-> assets]
\* Releases with an asset for each supported host of the model, under a
\* newer, an older and an unparsable version, and one without such assets.
Releases ==
    {Release(v, {ARCHIVE_LINUX_X64, ARCHIVE_WINDOWS_ARM64}) :
         v \in {<<"v">> \o V_0_1_10, <<"v">> \o V_0_1_9, <<"v">> \o V_0_1}}
    \cup {Release(<<"v">> \o V_0_1_10, {ARCHIVE_MACOS_ARM64})}
\* latest_github_release: a release, or a failure.
ReleaseLookups == {Ok(r) : r \in Releases} \cup {Err("release lookup failed")}

\* ---- the clock
\* Largest time of the clock, in update check intervals.
MaxDays == 2

\* The times the clock shows, in seconds: each whole interval and the
\* second before it.
Times ==
    {0} \cup {k * UPDATE_CHECK_INTERVAL_SECS : k \in 1..MaxDays}
        \cup {k * UPDATE_CHECK_INTERVAL_SECS - 1 : k \in 1..MaxDays}

\* SystemTime::elapsed: fails when the clock shows an earlier time.
\* The times a call begun at now may end at: at once, or at the next time
\* the clock shows.
EndTimes(now) ==
    {now} \cup {t \in Times : t > now /\ \A u \in Times : u > now => u >= t}

elapsed(last, now) == IF now >= last THEN Ok(now - last) ELSE Err("clock went backward")

\* Mutant of should_check_for_update: the interval is not waited for.
should_check_for_update_NoInterval(last_check, now) ==
    \/ last_check = None
    \/ elapsed(last_check[1], now).ok

should_check_for_update(last_check, now) ==
    \/ last_check = None
    \/ LET interval == UPDATE_CHECK_INTERVAL_SECS
           e == elapsed(last_check[1], now)
       IN  (IF e.ok THEN e.value ELSE interval) >= interval

\* ---- the extension's operations
\* Each operation is the set of the ways it can end, one for each thing its
\* environment may do.  A way it ends: the fields of the extension and the
\* file at the binary's path afterwards, the clock, the result, and what
\* the call did (effects), which release lookup its update check saw
\* (looked_up) and what it asked download_file for (download).
Began(cached, last_check, at_path, now) ==
    [cached_binary_path |-> cached, last_update_check |-> last_check,
     binary |-> at_path, clock |-> now, result |-> Err("pending"),
     effects |-> {}, looked_up |-> None, download |-> None]

Ends(s, result) == [s EXCEPT !.result = result]
Did(s, effect) == [s EXCEPT !.effects = @ \cup {effect}]

\* The directory the extension runs in, and the binary's path under it.
WorkDir == "/work"
BinaryPath(platform) == <<WorkDir, PROXY_DIR, get_binary_name(platform)>>

\* Mutant of check_and_update_binary: a binary whose version cannot be
\* told is taken for outdated and removed.
check_and_update_binary_RemovesOnFailure(cached, at_path, lookup, removed) ==
    LET skip(eff, seen) ==
            [cached_binary_path |-> cached, binary |-> at_path,
             effects |-> eff, looked_up |-> seen]
        remove(eff, seen) ==
            [cached_binary_path |-> None,
             binary |-> IF removed THEN Absent ELSE at_path,
             effects |-> eff \cup {"remove_file"}, looked_up |-> seen]
        current == get_binary_version(at_path)
    IN  IF ~current.ok THEN remove({"--version"}, None)
        ELSE IF ~lookup.ok THEN skip({"--version", "latest_github_release"}, Some(lookup))
        ELSE LET latest_version ==
                     Version_parse(trim_start_matches(lookup.value.version, "v"))
                 current_version ==
                     Version_parse(trim_start_matches(current.value, "v"))
                 looked == {"--version", "latest_github_release"}
             IN  IF ~latest_version.ok THEN skip(looked, Some(lookup))
                 ELSE IF ~current_version.ok THEN remove(looked, Some(lookup))
                 ELSE IF VersionGreater(latest_version.value, current_version.value)
                 THEN remove(looked, Some(lookup))
                 ELSE skip(looked, Some(lookup))

\* The update check on the cached binary, given what is at its path, what
\* the release lookup answers and whether remove_file manages to remove.
check_and_update_binary(cached, at_path, lookup, removed) ==
    LET skip(eff, seen) ==
            [cached_binary_path |-> cached, binary |-> at_path,
             effects |-> eff, looked_up |-> seen]
        current == get_binary_version(at_path)
    IN  IF ~current.ok THEN skip({"--version"}, None)
        ELSE IF ~lookup.ok THEN skip({"--version", "latest_github_release"}, Some(lookup))
        ELSE LET latest_version ==
                     Version_parse(trim_start_matches(lookup.value.version, "v"))
                 current_version ==
                     Version_parse(trim_start_matches(current.value, "v"))
                 looked == {"--version", "latest_github_release"}
             IN  IF ~latest_version.ok THEN skip(looked, Some(lookup))
                 ELSE IF ~current_version.ok THEN skip(looked, Some(lookup))
                 ELSE IF VersionGreater(latest_version.value, current_version.value)
                 THEN [cached_binary_path |-> None,
                       binary |-> IF removed THEN Absent ELSE at_path,
                       effects |-> looked \cup {"remove_file"},
                       looked_up |-> Some(lookup)]
                 ELSE skip(looked, Some(lookup))

\* Mutant of DownloadBinary: the path is cached as soon as the download is
\* asked for, before the extracted binary is verified.
DownloadBinary_CachesBeforeVerify(s, platform, binary_path, lookup) ==
    LET s1 == Did(s, "latest_github_release") IN
    IF ~lookup.ok THEN {Ends(s1, Err("Failed to get latest release"))}
    ELSE LET archive_name == get_platform_archive_name(platform) IN
         IF ~archive_name.ok THEN {Ends(s1, archive_name)}
         ELSE IF archive_name.value \notin lookup.value.assets
         THEN {Ends(s1, Err("No asset found in release"))}
         ELSE LET s2 == [s1 EXCEPT !.download =
                            Some([asset |-> archive_name.value, dir |-> PROXY_DIR,
                                  file_type |-> DownloadedFileType(archive_name.value)]),
                                   !.cached_binary_path = Some(binary_path)]
                  version == trim_start_matches(lookup.value.version, "v")
                  extracted == [s2 EXCEPT !.binary = File(Prints(VersionLine(version)))]
              IN  {Ends(s2, Err("Failed to download")),
                   Ends(s2, Err("Binary not found at expected path after extraction")),
                   Ends(Did(extracted, "make_file_executable"),
                        Err("Failed to make executable")),
                   Ends(extracted, Ok(binary_path))}

\* ensure_binary from the release lookup on: find the platform's asset,
\* download and extract it, verify, make executable, cache the path.
DownloadBinary(s, platform, binary_path, lookup) ==
    LET s1 == Did(s, "latest_github_release") IN
    IF ~lookup.ok THEN {Ends(s1, Err("Failed to get latest release"))}
    ELSE LET archive_name == get_platform_archive_name(platform) IN
         IF ~archive_name.ok THEN {Ends(s1, archive_name)}
         ELSE IF archive_name.value \notin lookup.value.assets
         THEN {Ends(s1, Err("No asset found in release"))}
         ELSE LET s2 == [s1 EXCEPT !.download =
                            Some([asset |-> archive_name.value, dir |-> PROXY_DIR,
                                  file_type |-> DownloadedFileType(archive_name.value)])]
                  version == trim_start_matches(lookup.value.version, "v")
                  extracted == [s2 EXCEPT !.binary = File(Prints(VersionLine(version)))]
              IN  {Ends(s2, Err("Failed to download")),
                   Ends(s2, Err("Binary not found at expected path after extraction")),
                   Ends(Did(extracted, "make_file_executable"),
                        Err("Failed to make executable")),
                   Ends([extracted EXCEPT !.cached_binary_path = Some(binary_path)],
                        Ok(binary_path))}

\* ensure_binary once no cached path is left: locate the binary under the
\* work directory, download it when it is not there.
FindOrDownload(s, platform) ==
    LET binary_path == BinaryPath(platform) IN
    {Ends(s, Err("Failed to get work directory"))}
    \cup CASE s.binary.kind = "file" ->
                  {Ends([s EXCEPT !.cached_binary_path = Some(binary_path)],
                        Ok(binary_path))}
           [] s.binary.kind = "dir" -> {Ends(s, Err("Binary path exists but is not a file"))}
           [] s.binary.kind = "inaccessible" -> {Ends(s, Err("Failed to check binary"))}
           [] OTHER -> UNION {DownloadBinary(s, platform, binary_path, lookup) :
                                  lookup \in ReleaseLookups}

ensure_binary(cached, last_check, at_path, now, platform) ==
    LET s0 == Did(Began(cached, last_check, at_path, now), "ensure_binary") IN
    IF cached # None
    THEN IF should_check_for_update(last_check, now)
         THEN UNION {LET u == check_and_update_binary(cached, at_path, lookup, removed)
                         s1 == [s0 EXCEPT !.cached_binary_path = u.cached_binary_path,
                                          !.binary = u.binary,
                                          !.effects = @ \cup u.effects \cup {"update check"},
                                          !.looked_up = u.looked_up,
                                          !.last_update_check = Some(t),
                                          !.clock = t]
                     IN  IF s1.cached_binary_path # None
                         THEN {Ends(s1, Ok(s1.cached_binary_path[1]))}
                         ELSE FindOrDownload(s1, platform)
                     : lookup \in ReleaseLookups, removed \in BOOLEAN,
                       t \in EndTimes(now)}
         ELSE {Ends(s0, Ok(cached[1]))}
    ELSE FindOrDownload(s0, platform)

\* zed::Command
Command(program) == [command |-> program, args |-> <<>>, env |-> <<>>]

\* Mutant of context_server_command: the id is not looked at.
context_server_command_AnyId(cached, last_check, at_path, now, platform, id) ==
    {Ends(o, IF o.result.ok THEN Ok(Command(o.result.value)) ELSE o.result) :
         o \in ensure_binary(cached, last_check, at_path, now, platform)}

context_server_command(cached, last_check, at_path, now, platform, id) ==
    IF id = CONTEXT_SERVER_ID
    THEN {Ends(o, IF o.result.ok THEN Ok(Command(o.result.value)) ELSE o.result) :
              o \in ensure_binary(cached, last_check, at_path, now, platform)}
    ELSE {Ends(Began(cached, last_check, at_path, now), Err("Unknown context server"))}

\* The ids context_server_command is called with.
ServerIds == {CONTEXT_SERVER_ID, "some-other-server"}

\* -------------------------------------------------------------------- state
VARIABLES
    cl,         \* the forward_request call in progress (BunDocsClient)
    stdin,      \* standard input not read yet
    stdin_read, \* standard input read so far
    stdin_end,  \* how standard input ends: "eof" or "ioerr"
    stdout,     \* standard output, flushed
    out_buf,    \* standard output, written and not flushed
    reads,      \* the results of the read_message calls, in order
    writes,     \* the write_message calls, in order: message and success
    rpc,        \* the relay loop's position
    request,    \* the request the relay is serving
    outcome,    \* the result of forward_request for it
    posted,     \* the bodies of the POSTs the relay's calls made, in order
    served,     \* the requests answered, each with the response written
    cached_binary_path, \* the extension's field: the binary's path, once known
    last_update_check,  \* the extension's field: the time of the last update check
    binary,     \* what is at the binary's path under the work directory
    clock,      \* the system clock, in seconds
    platform,   \* the host's (os, architecture)
    last_call,  \* the context_server_command call just made: the state it began
                \* in, its id, its result and what it did
    check_began, \* the time the last update check began at
    monotonic   \* the clock has never been set back

clientVars == <<cl>>
transportVars == <<stdin, stdin_read, stdin_end, stdout, out_buf, reads, writes>>
relayVars == <<rpc, request, outcome, posted, served>>
extVars == <<cached_binary_path, last_update_check, binary, clock, platform, last_call,
             check_began, monotonic>>
vars == <<cl, stdin, stdin_read, stdin_end, stdout, out_buf, reads, writes, rpc, request, outcome,
          posted, served, cached_binary_path, last_update_check, binary, clock, platform,
          last_call, check_began, monotonic>>

\* No call in progress, no input, the relay not running.
ClientIdle == cl = [NewCall(JNull) EXCEPT !.pc = "off"]
TransportIdle ==
    /\ stdin = <<>> /\ stdin_read = <<>> /\ stdin_end = "eof"
    /\ stdout = <<>> /\ out_buf = <<>>
    /\ reads = <<>> /\ writes = <<>>
RelayIdle ==
    /\ rpc = "off" /\ request = JNull /\ outcome = <<>> /\ posted = <<>> /\ served = <<>>
\* The extension not loaded.
ExtensionIdle ==
    /\ cached_binary_path = None /\ last_update_check = None
    /\ binary = Absent /\ clock = 0 /\ platform = <<"Linux", "X8664">>
    /\ last_call = None /\ check_began = None /\ monotonic = TRUE

\* ------------------------------------------- forward_request, step by step
InitClient ==
    /\ \E r \in Requests : cl = NewCall(r)
    /\ TransportIdle
    /\ RelayIdle
    /\ ExtensionIdle

Call ==
    /\ cl.pc = "done"
    /\ \E r \in Requests : cl' = NewCall(r)
    /\ UNCHANGED <<transportVars, relayVars, extVars>>

SendRequest ==
    /\ cl.pc = "send"
    /\ \E be \in Backend : cl' = SendOp(cl, be)
    /\ UNCHANGED <<transportVars, relayVars, extVars>>

CheckStatus ==
    /\ cl.pc = "status"
    /\ cl' = StatusOp(cl)
    /\ UNCHANGED <<transportVars, relayVars, extVars>>

CheckContentType ==
    /\ cl.pc = "content_type"
    /\ cl' = ContentTypeOp(cl)
    /\ UNCHANGED <<transportVars, relayVars, extVars>>

ParseJsonBody ==
    /\ cl.pc = "json"
    /\ cl' = JsonOp(cl)
    /\ UNCHANGED <<transportVars, relayVars, extVars>>

SseNextEvent ==
    /\ cl.pc = "sse"
    /\ cl' = SseNextOp(cl)
    /\ UNCHANGED <<transportVars, relayVars, extVars>>

SseReturn ==
    /\ cl.pc = "sse_end"
    /\ cl' = SseEndOp(cl)
    /\ UNCHANGED <<transportVars, relayVars, extVars>>

NextClient ==
    \/ Call
    \/ SendRequest
    \/ CheckStatus
    \/ CheckContentType
    \/ ParseJsonBody
    \/ SseNextEvent
    \/ SseReturn

SpecClient == InitClient /\ [][NextClient]_vars

\* ------------------------------------------ the transport, called directly
\* Largest number of read_message calls and of write_message calls.
MaxCalls == 3

\* The messages handed to write_message.
Messages == {to_string(r) : r \in Requests}

InitTransport ==
    /\ stdin \in Inputs
    /\ stdin_read = <<>>
    /\ stdin_end \in {"eof", "ioerr"}
    /\ stdout = <<>> /\ out_buf = <<>> /\ reads = <<>> /\ writes = <<>>
    /\ ClientIdle
    /\ RelayIdle
    /\ ExtensionIdle

\* A caller that stops writing at the first failed write.
WriterStopped == \E i \in 1..Len(writes) : ~writes[i].ok

ReadMessage ==
    /\ Len(reads) < MaxCalls
    /\ LET r == read_message(stdin, stdin_end) IN
         /\ stdin' = r.rest
         /\ stdin_read' = stdin_read \o SubSeq(stdin, 1, Len(stdin) - Len(r.rest))
         /\ reads' = Append(reads, IF r.ok THEN [ok |-> TRUE, msg |-> r.msg]
                                   ELSE [ok |-> FALSE])
    /\ UNCHANGED <<stdin_end, stdout, out_buf, writes, clientVars, relayVars, extVars>>

WriteMessage ==
    /\ Len(writes) < MaxCalls
    /\ ~WriterStopped
    /\ \E message \in Messages, fail \in WriteFailures :
         LET w == write_message(stdout, out_buf, message, fail) IN
           /\ stdout' = w.out
           /\ out_buf' = w.buf
           /\ writes' = Append(writes, [message |-> message, ok |-> w.ok])
    /\ UNCHANGED <<stdin, stdin_read, stdin_end, reads, clientVars, relayVars, extVars>>

NextTransport ==
    \/ ReadMessage
    \/ WriteMessage

SpecTransport == InitTransport /\ [][NextTransport]_vars

\* ------------------------------------------------------------ the relay loop
\* The loop that composes the two: read a message, forward it, write the
\* response.  "No message" is the shutdown signal; a read or write failure
\* is fatal; a failed exchange is answered with an error response.
ErrorResponse(r) ==
    JObj(("error" :> JStr("error"))
         @@ (IF GetIsSome(r, "id") THEN ("id" :> r.members["id"]) ELSE NoMembers))

ResponseOf(r, o) == IF o.ok THEN o.value ELSE ErrorResponse(r)

InitRelay ==
    /\ stdin \in Inputs
    /\ stdin_read = <<>>
    /\ stdin_end \in {"eof", "ioerr"}
    /\ stdout = <<>> /\ out_buf = <<>> /\ reads = <<>> /\ writes = <<>>
    /\ rpc = "read" /\ request = JNull /\ outcome = <<>> /\ posted = <<>> /\ served = <<>>
    /\ ClientIdle
    /\ ExtensionIdle

RelayRead ==
    /\ rpc = "read"
    /\ LET r == read_message(stdin, stdin_end) IN
         /\ stdin' = r.rest
         /\ stdin_read' = stdin_read \o SubSeq(stdin, 1, Len(stdin) - Len(r.rest))
         /\ reads' = Append(reads, IF r.ok THEN [ok |-> TRUE, msg |-> r.msg]
                                   ELSE [ok |-> FALSE])
         /\ IF ~r.ok THEN rpc' = "fatal" /\ request' = request
            ELSE IF r.msg = None THEN rpc' = "stopped" /\ request' = request
            ELSE rpc' = "forward" /\ request' = from_str(r.msg[1]).val
    /\ UNCHANGED <<stdin_end, stdout, out_buf, writes, outcome, posted, served, clientVars, extVars>>

\* Mutant of RelayForward: a failed exchange is propagated and ends the
\* session.
RelayForward_PropagatesFailure ==
    /\ rpc = "forward"
    /\ \E be \in RelayBackend :
         LET c == forward_request(request, be) IN
           /\ outcome' = c.result
           /\ posted' = posted \o [i \in 1..Len(c.posts) |-> c.posts[i].body]
           /\ rpc' = IF c.result[1].ok THEN "write" ELSE "fatal"
    /\ UNCHANGED <<request, served, transportVars, clientVars, extVars>>

RelayForward ==
    /\ rpc = "forward"
    /\ \E be \in RelayBackend :
         LET c == forward_request(request, be) IN
           /\ outcome' = c.result
           /\ posted' = posted \o [i \in 1..Len(c.posts) |-> c.posts[i].body]
    /\ rpc' = "write"
    /\ UNCHANGED <<request, served, transportVars, clientVars, extVars>>

RelayWrite ==
    /\ rpc = "write"
    /\ \E fail \in WriteFailures :
         LET message == to_string(ResponseOf(request, outcome[1]))
             w == write_message(stdout, out_buf, message, fail)
         IN  /\ stdout' = w.out
             /\ out_buf' = w.buf
             /\ writes' = Append(writes, [message |-> message, ok |-> w.ok])
             /\ served' = IF w.ok
                          THEN Append(served, [request |-> request, response |-> message])
                          ELSE served
             /\ rpc' = IF w.ok THEN "read" ELSE "fatal"
    /\ outcome' = <<>>
    /\ UNCHANGED <<stdin, stdin_read, stdin_end, reads, request, posted, clientVars, extVars>>

NextRelay ==
    \/ RelayRead
    \/ RelayForward
    \/ RelayWrite

SpecRelay == InitRelay /\ [][NextRelay]_vars

\* ------------------------------------------------------------ the extension
\* Extension::new on a host where the binary's path may hold anything.
InitExtension ==
    /\ cached_binary_path = None
    /\ last_update_check = None
    /\ binary \in {Absent, Directory, Inaccessible} \cup InstalledBinaries
    /\ clock = 0
    /\ platform \in Platforms
    /\ last_call = None
    /\ check_began = None
    /\ monotonic = TRUE
    /\ ClientIdle
    /\ TransportIdle
    /\ RelayIdle

\* Zed asks for the command of a context server.
ContextServerCommand ==
    /\ \E id \in ServerIds :
         \E o \in context_server_command(cached_binary_path, last_update_check, binary,
                                         clock, platform, id) :
           /\ cached_binary_path' = o.cached_binary_path
           /\ last_update_check' = o.last_update_check
           /\ binary' = o.binary
           /\ clock' = o.clock
           /\ last_call' = Some([before |-> [cached_binary_path |-> cached_binary_path,
                                              last_update_check |-> last_update_check,
                                              binary |-> binary, clock |-> clock,
                                              check_began |-> check_began],
                                  id |-> id, result |-> o.result, effects |-> o.effects,
                                  looked_up |-> o.looked_up, download |-> o.download])
           /\ check_began' = IF "update check" \in o.effects
                              THEN Some(clock)
                              ELSE check_began
    /\ UNCHANGED <<platform, monotonic, clientVars, transportVars, relayVars>>

\* Time passes, or the clock is set to another time.
ClockChange ==
    /\ \E t \in Times \ {clock} :
         /\ clock' = t
         /\ monotonic' = (monotonic /\ t > clock)
    /\ last_call' = None
    /\ UNCHANGED <<cached_binary_path, last_update_check, binary, platform,
                   check_began, clientVars, transportVars, relayVars>>

NextExtension ==
    \/ ContextServerCommand
    \/ ClockChange

SpecExtension == InitExtension /\ [][NextExtension]_vars

\* ------------------------------------------ vocabulary of the properties
\* The JSON value each data text of the model denotes (<<>>: not JSON).
Denotes(t) ==
    CASE t = DataPlain -> <<JObj(NoMembers)>>
      [] t = DataResult -> <<JObj("result" :> JNum(1))>>
      [] t = DataError -> <<JObj("error" :> JNull)>>
      [] t = DataNullResult -> <<JObj(("id" :> JNum(1)) @@ ("result" :> JNull))>>
      [] t = <<"R">> -> <<JStr("result")>>
      [] OTHER -> <<>>

\* The data texts that carry a JSON-RPC response, and those that do not.
TerminalData == {DataResult, DataError, DataNullResult}
SkippedData == {DataEmpty, DataMalformed, DataPlain}

HasResponse == cl.response # <<>>
Resp == cl.response[1]
Events == cl.response[1].events
Returned == cl.pc = "done"

\* The backend answered with a success status and an SSE content type.
OnSse == HasResponse /\ Resp.status \in SuccessStatuses /\ Resp.content_type \in SseHeaders

\* The backend answered with a success status and some other content type.
OnDirect == HasResponse /\ Resp.status \in SuccessStatuses /\ Resp.content_type \in OtherHeaders

IsTerminalEvent(item) == item.ok /\ item.data \in TerminalData
IsSkippedEvent(item) == item.ok /\ item.data \in SkippedData

\* k is the first terminal event of the stream and no read error precedes it.
FirstTerminalAt(events, k) ==
    /\ k \in 1..Len(events)
    /\ IsTerminalEvent(events[k])
    /\ \A j \in 1..(k - 1) : events[j].ok /\ ~IsTerminalEvent(events[j])

\* C1: on an SSE answer forward_request returns the value of the first
\* terminal event in arrival order, as soon as it is seen: no event after it
\* is consumed, and no later event changes the value returned.
C1_FirstTerminalEventReturned ==
    OnSse =>
        \A k \in 1..Len(Events) :
            FirstTerminalAt(Events, k) =>
                /\ cl.consumed <= k
                /\ Returned => /\ cl.result = <<Ok(Denotes(Events[k].data)[1])>>
                               /\ cl.consumed = k

\* C1 witness: a call returned the first of two different terminal events.
C1_Witness ==
    /\ OnSse /\ Returned
    /\ Events = <<OkEvent(DataPlain), OkEvent(DataError), OkEvent(DataResult)>>
    /\ cl.result = <<Ok(JObj("error" :> JNull))>>
    /\ cl.consumed = 2

\* A JSON-RPC response: an object with a result key or an error key.
IsJsonRpcResponse(v) ==
    v.kind = "object" /\ ({"result", "error"} \cap DOMAIN v.members) # {}

\* C2: every value forward_request returns is a terminal response, on the
\* SSE path and on the direct-JSON path alike, and an exchange that yields no
\* such value ends in the no-valid-response failure.
C2_EveryReturnedValueIsTerminal ==
    (Returned /\ HasResponse /\ Resp.status \in SuccessStatuses) =>
        /\ cl.result[1].ok => IsJsonRpcResponse(cl.result[1].value)
        /\ (OnDirect /\ Resp.body.read /\ Denotes(Resp.body.text) # <<>>
                /\ ~IsJsonRpcResponse(Denotes(Resp.body.text)[1]))
              => cl.result = <<ErrNoResponse>>

\* C3: events with empty data, with data that is not JSON and with JSON data
\* that has neither key are skipped without ending the stream; after any
\* number of them the terminal event that follows is the value returned.
C3_SkippedEventsDoNotAbort ==
    OnSse =>
        \A k \in 1..Len(Events) :
            (IsTerminalEvent(Events[k]) /\ \A j \in 1..(k - 1) : IsSkippedEvent(Events[j])) =>
                /\ (cl.pc \in {"sse", "sse_end", "done"} /\ cl.consumed < k) =>
                       (cl.pc = "sse" /\ cl.json_response = <<>> /\ cl.result = <<>>)
                /\ Returned => cl.result = <<Ok(Denotes(Events[k].data)[1])>>

\* C3 witness: {} then malformed text then a result, and the result returned.
C3_Witness ==
    /\ OnSse /\ Returned
    /\ Events = <<OkEvent(DataPlain), OkEvent(DataMalformed), OkEvent(DataResult)>>
    /\ cl.result = <<Ok(JObj("result" :> JNum(1)))>>

\* C4: an SSE stream that ends after non-terminal events only, the empty
\* stream included, fails with the no-response error.
C4_NoTerminalEventFails ==
    (OnSse /\ Returned /\ \A j \in 1..Len(Events) : IsSkippedEvent(Events[j])) =>
        cl.result = <<ErrNoResponse>>

\* C4 witness: a stream of three non-terminal events was read to its end.
C4_Witness ==
    /\ OnSse /\ Returned
    /\ Events = <<OkEvent(DataPlain), OkEvent(DataEmpty), OkEvent(DataMalformed)>>
    /\ cl.consumed = 3
    /\ ~cl.result[1].ok

\* C5: a read error before any terminal event stops consumption there: no
\* later event is inspected and the call fails, whatever follows the error.
C5_ReadErrorStopsConsumption ==
    OnSse =>
        \A e \in 1..Len(Events) :
            (~Events[e].ok /\ \A j \in 1..(e - 1) : IsSkippedEvent(Events[j])) =>
                /\ cl.consumed <= e
                /\ Returned => (cl.consumed = e /\ cl.result = <<ErrNoResponse>>)

\* C5 witness: the error was followed by a terminal event that was never read.
C5_Witness ==
    /\ OnSse /\ Returned
    /\ Events = <<OkEvent(DataPlain), ErrEvent("io"), OkEvent(DataResult)>>
    /\ cl.consumed = 2
    /\ ~cl.result[1].ok

\* C6: on a success status with a content type that does not contain
\* text/event-stream (a missing or unreadable header included) the whole
\* body is parsed as one JSON value and that value returned unchanged; a
\* body that is not JSON (or cannot be read) fails the request.
C6_DirectJsonBodyReturnedUnchanged ==
    (OnDirect /\ Returned) =>
        /\ cl.consumed = 0
        /\ IF Resp.body.read /\ Denotes(Resp.body.text) # <<>>
           THEN cl.result = <<Ok(Denotes(Resp.body.text)[1])>>
           ELSE cl.result = <<ErrDecode>>

\* C6 witness: an unreadable content-type header, the body {} returned as is.
C6_Witness ==
    /\ OnDirect /\ Returned
    /\ Resp.content_type = OpaqueHeader(<<"text/event-stream">>)
    /\ Resp.body = BodyText(DataPlain)
    /\ cl.result = <<Ok(JObj(NoMembers))>>

\* C7: a non-success status fails with an error carrying the status code and
\* the body text (a placeholder when the body cannot be read); the status is
\* checked first, so the body is never parsed as JSON or as SSE.
C7_StatusErrorBeforeContentType ==
    (HasResponse /\ Resp.status \in FailureStatuses) =>
        /\ cl.pc \in {"status", "done"}
        /\ cl.consumed = 0
        /\ Returned =>
              cl.result = <<ErrStatus(Resp.status,
                                      IF Resp.body.read THEN Resp.body.text
                                      ELSE <<"unknown error">>)>>

\* C7 witness: status 500 on an SSE content type with an unreadable body.
C7_Witness ==
    /\ HasResponse /\ Returned
    /\ Resp.status = 500
    /\ Resp.content_type \in SseHeaders
    /\ Resp.body = BodyUnreadable
    /\ cl.result = <<ErrStatus(500, <<"unknown error">>)>>

RECURSIVE SplitLines(_)
\* The lines of a text, each with its terminator; a last line without one is
\* kept as it is.
SplitLines(s) ==
    IF s = <<>> THEN <<>>
    ELSE LET k == FirstNewline(s, 1) IN
         IF k = 0 THEN <<s>>
         ELSE <<SubSeq(s, 1, k)>> \o SplitLines(SubSeq(s, k + 1, Len(s)))

AllWs(t) == \A i \in 1..Len(t) : IsWs(t[i])

\* t is line without its terminator and surrounding whitespace.
IsTrimmed(t, line) ==
    \E i, j \in 1..Len(line) :
        /\ i <= j
        /\ t = SubSeq(line, i, j)
        /\ ~IsWs(line[i]) /\ ~IsWs(line[j])
        /\ AllWs(SubSeq(line, 1, i - 1))
        /\ AllWs(SubSeq(line, j + 1, Len(line)))

NoMessage == [ok |-> TRUE, msg |-> <<>>]

\* The requests among the read_message results, in order.
RECURSIVE MessagesRead(_)
MessagesRead(rs) ==
    IF rs = <<>> THEN <<>>
    ELSE (IF Head(rs).ok /\ Head(rs).msg # <<>> THEN <<Head(rs).msg[1]>> ELSE <<>>)
         \o MessagesRead(Tail(rs))

RECURSIVE ResponseLines(_)
\* The responses written for the served requests, one line each.
ResponseLines(sv) ==
    IF sv = <<>> THEN <<>> ELSE <<Head(sv).response \o <<"\n">>>> \o ResponseLines(Tail(sv))

RECURSIVE RequestBodies(_)
\* The POST bodies of the non-blank lines among ls, in order.
RequestBodies(ls) ==
    IF ls = <<>> THEN <<>>
    ELSE (IF AllWs(Head(ls)) THEN <<>> ELSE <<to_string(from_str(Head(ls)).val)>>)
         \o RequestBodies(Tail(ls))

\* C9: blank lines are ignored: when the session has ended, the requests
\* relayed to the backend are the non-blank lines of standard input, in
\* order, those after a blank line included.
C9_BlankLinesIgnored ==
    (rpc = "stopped" /\ stdin_end = "eof") =>
        posted = RequestBodies(SplitLines(stdin_read \o stdin))

\* C10: read_message consumes at most one line per call; at end-of-stream
\* with nothing read and on a line that is empty after trimming it returns
\* "no message", otherwise the line without terminator and surrounding
\* whitespace; it never returns an empty string.
C10_ReadMessageContract ==
    (rpc = "off" /\ stdin_end = "eof") =>
        LET lines == SplitLines(stdin_read) IN
        /\ (Len(lines) = Len(reads) \/ (Len(lines) < Len(reads) /\ stdin = <<>>))
        /\ \A i \in 1..Len(reads) :
              /\ reads[i].ok
              /\ reads[i].msg # <<<<>>>>
              /\ IF i > Len(lines) \/ (i <= Len(lines) /\ AllWs(lines[i]))
                 THEN reads[i] = NoMessage
                 ELSE /\ reads[i].msg # <<>>
                      /\ IsTrimmed(reads[i].msg[1], lines[i])

\* C10 witness: a padded request line, then a blank line, then end-of-stream:
\* the trimmed request, then "no message" twice.
C10_Witness ==
    /\ rpc = "off" /\ stdin_end = "eof"
    /\ stdin_read = LineRequest2 \o <<"\n">> \o LineSpaces \o <<"\n">>
    /\ stdin = <<>>
    /\ reads = <<[ok |-> TRUE, msg |-> <<<<"{", "I", ":", "2", "}">>>>], NoMessage, NoMessage>>


RECURSIVE WrittenLines(_)
\* The messages of the write_message calls ws, each followed by one newline.
WrittenLines(ws) ==
    IF ws = <<>> THEN <<>> ELSE Head(ws).message \o <<"\n">> \o WrittenLines(Tail(ws))

\* C11: after any sequence of successful write_message calls, standard
\* output is exactly the messages in call order, each followed by one
\* newline, and nothing is left written but not flushed.
C11_WritesAreFlushedLines ==
    (rpc = "off" /\ \A i \in 1..Len(writes) : writes[i].ok)
        => /\ stdout = WrittenLines(writes)
           /\ out_buf = <<>>

\* Two successful writes of different messages.
C11_Witness ==
    /\ rpc = "off"
    /\ Len(writes) = 2
    /\ writes[1].ok /\ writes[2].ok
    /\ writes[1].message # writes[2].message
    /\ stdout = writes[1].message \o <<"\n">> \o writes[2].message \o <<"\n">>

\* C12: forward_request makes exactly one POST per call and never a second
\* one, however the exchange fails: none before the send step, one from
\* then on, through every failure and up to the return.
C12_ExactlyOnePost ==
    cl.pc # "off" => Len(cl.posts) = (IF cl.pc = "send" THEN 0 ELSE 1)

\* A call that failed on a non-success status has returned after one POST.
C12_Witness ==
    /\ Returned /\ ~cl.result[1].ok /\ cl.result[1].kind = "status"
    /\ Len(cl.posts) = 1


\* C13: a failed backend exchange fails that request only: the relay goes
\* from the exchange to writing, writes the error response for the request
\* and, unless that write itself fails, is back at reading the next line.
C13_FailedExchangeKeepsSession ==
    [][/\ rpc = "forward" => (rpc' = "write" /\ outcome' # <<>>)
       /\ (rpc = "write" /\ ~outcome[1].ok) =>
              LET w == writes'[Len(writes')] IN
              /\ Len(writes') = Len(writes) + 1
              /\ w.message = to_string(ErrorResponse(request))
              /\ IF w.ok
                 THEN /\ rpc' = "read"
                      /\ served' = Append(served, [request |-> request,
                                                   response |-> w.message])
                 ELSE rpc' = "fatal"]_vars

\* The first exchange failed, its error response was written, and the
\* relay has read the next request and is about to forward it.
C13_Witness ==
    /\ rpc = "forward"
    /\ Len(served) = 1
    /\ served[1].response = to_string(ErrorResponse(served[1].request))
    /\ stdout = served[1].response \o <<"\n">>
    /\ Len(MessagesRead(reads)) = 2
    /\ request # served[1].request

\* The request timeout expired during the call: in the send, or while the
\* next event of the SSE stream was awaited.
TimedOutInSend == Returned /\ ~HasResponse /\ cl.result[1] = ErrSend("timeout")
TimedOutInStream ==
    /\ Returned /\ HasResponse /\ OnSse
    /\ cl.consumed >= 1
    /\ Events[cl.consumed] = ErrEvent("timeout")
IsTimeoutError(r) == ~r.ok /\ "cause" \in DOMAIN r /\ r.cause = "timeout"

\* C14: whenever the request timeout expires before the exchange has
\* completed, during the send or while an SSE event is awaited,
\* forward_request fails with a timeout error and returns no value.
C14_TimeoutIsTimeoutError ==
    (TimedOutInSend \/ TimedOutInStream) => IsTimeoutError(cl.result[1])

\* The exchanges begun and not yet answered on standard output.
InFlight == Len(posted) - Len(served)

\* C15: requests are handled strictly one at a time: a line is read only
\* when every exchange begun so far has been answered on standard output,
\* and at no time is more than one exchange unanswered.
C15_OneRequestAtATime ==
    rpc \in {"read", "forward", "write", "stopped"} =>
        /\ InFlight = (IF rpc = "write" THEN 1 ELSE 0)
        /\ Len(MessagesRead(reads)) = Len(posted) + (IF rpc = "forward" THEN 1 ELSE 0)
        /\ rpc = "write" <=> outcome # <<>>

\* The first request's exchange is unanswered and the next line waits
\* unread on standard input.
C15_Witness ==
    /\ rpc = "write"
    /\ Len(posted) = 1 /\ served = <<>>
    /\ Len(reads) = 1
    /\ stdout = <<>>
    /\ \E b \in RequestLines : stdin = b \o <<"\n">>


\* C17: forward_request is payload-agnostic: the body of its POST is the
\* request it was handed, unchanged; a request that is no well-formed
\* JSON-RPC request (no "jsonrpc", no "method") is posted all the same,
\* with no member added, removed or rewritten.
C17_PostBodyIsTheRequest ==
    (cl.pc \notin {"off", "send"}) =>
        LET posted_value == from_str(cl.posts[1].body) IN
        /\ posted_value.ok
        /\ posted_value.val = cl.request
        /\ cl.posts[1].body \in {trim(b) : b \in RequestLines}

\* The request {"id":2} was posted as the text {"id":2} and the call has
\* returned.
C17_Witness ==
    /\ Returned
    /\ cl.request = JObj("id" :> JNum(2))
    /\ cl.posts = <<[body |-> <<"{", "I", ":", "2", "}">>, timeout |-> REQUEST_TIMEOUT_SECS]>>

\* C18: context_server_command with the id "bun-docs-mcp" calls
\* ensure_binary and, when that succeeds, returns the command whose program
\* is the path it returned, with no arguments and no environment; with any
\* other id it returns the unknown-server error without calling
\* ensure_binary, leaves cached_binary_path, last_update_check and the
\* binary as they were, and downloads nothing.
C18_CommandOnlyForKnownId ==
    last_call # None =>
        LET c == last_call[1] IN
        IF c.id = CONTEXT_SERVER_ID
        THEN /\ "ensure_binary" \in c.effects
             /\ c.result.ok =>
                    /\ cached_binary_path = Some(BinaryPath(platform))
                    /\ c.result.value = [command |-> BinaryPath(platform),
                                         args |-> <<>>, env |-> <<>>]
             /\ ~c.result.ok => c.result.error # "Unknown context server"
        ELSE /\ c.result = Err("Unknown context server")
             /\ c.effects = {}
             /\ c.download = None
             /\ cached_binary_path = c.before.cached_binary_path
             /\ last_update_check = c.before.last_update_check
             /\ binary = c.before.binary

\* After a call that located the binary and checked for an update, a call
\* with another id has failed and the extension's fields are still set.
C18_Witness ==
    /\ last_call # None
    /\ last_call[1].id # CONTEXT_SERVER_ID
    /\ last_call[1].result = Err("Unknown context server")
    /\ cached_binary_path = Some(BinaryPath(platform))
    /\ last_update_check # None
    /\ binary.kind = "file"


\* The call just made ran an update check.
Checked == last_call # None /\ "update check" \in last_call[1].effects
\* The state the call just made began in.
Before == last_call[1].before
\* An update check is due: none was made yet, or the interval has elapsed.
Due(last_check, now) ==
    last_check = None \/ now - last_check[1] >= UPDATE_CHECK_INTERVAL_SECS

\* C19: as long as the clock is never set back, an update check begins at
\* least UPDATE_CHECK_INTERVAL_SECS after the one before it began; a call
\* checks exactly when it has a cached path and no check was made yet or
\* the interval has elapsed since last_update_check; and after every
\* check, failed or not, last_update_check is the time the check ended at.
C19_UpdateChecksRateLimited ==
    (monotonic /\ last_call # None /\ last_call[1].id = CONTEXT_SERVER_ID) =>
        /\ (Checked /\ Before.check_began # None) =>
               Before.clock - Before.check_began[1] >= UPDATE_CHECK_INTERVAL_SECS
        /\ Checked <=> (/\ Before.cached_binary_path # None
                        /\ Due(Before.last_update_check, Before.clock))
        /\ Checked => /\ last_update_check = Some(clock)
                      /\ clock >= Before.clock
                      /\ check_began = Some(Before.clock)
        /\ ~Checked => last_update_check = Before.last_update_check

\* A second update check, begun exactly one interval after the first, has
\* failed at the release lookup.
C19_Witness ==
    /\ monotonic /\ Checked
    /\ Before.check_began # None
    /\ Before.clock - Before.check_began[1] = UPDATE_CHECK_INTERVAL_SECS
    /\ last_call[1].looked_up = Some(Err("release lookup failed"))
    /\ last_update_check = Some(clock)

\* A call one second before the interval has elapsed has not checked.
C19_WitnessTooEarly ==
    /\ monotonic /\ last_call # None /\ ~Checked
    /\ last_call[1].id = CONTEXT_SERVER_ID
    /\ Before.last_update_check # None
    /\ Before.clock - Before.last_update_check[1] = UPDATE_CHECK_INTERVAL_SECS - 1

\* The ways the update check of the call just made failed: the cached
\* binary did not report a version, the release lookup failed, or one of
\* the two versions is not MAJOR.MINOR.PATCH.
VersionRunFailed == Before.binary \in {File(CannotRun), File(ExitsWithError), File(Prints(<<"\n">>))}
LookupFailed == last_call[1].looked_up = Some(Err("release lookup failed"))
LatestUnparsable ==
    /\ last_call[1].looked_up # None
    /\ last_call[1].looked_up[1].ok
    /\ last_call[1].looked_up[1].value.version = <<"v">> \o V_0_1
CurrentUnparsable == Before.binary = File(Prints(VersionLine(V_0_1)))
UpdateCheckFailed ==
    Checked /\ (VersionRunFailed \/ LookupFailed \/ LatestUnparsable \/ CurrentUnparsable)

\* C20: a failed update check does not disrupt the call: the binary is not
\* removed, cached_binary_path stays as it was, nothing is downloaded and
\* the call returns the command of the cached path.
C20_FailedCheckKeepsBinary ==
    UpdateCheckFailed =>
        /\ binary = Before.binary
        /\ "remove_file" \notin last_call[1].effects
        /\ last_call[1].download = None
        /\ cached_binary_path = Before.cached_binary_path
        /\ cached_binary_path # None
        /\ last_call[1].result = Ok(Command(cached_binary_path[1]))

\* The cached binary's version does not parse while a release is
\* available: the call has returned the cached path all the same.
C20_Witness ==
    /\ Checked /\ CurrentUnparsable
    /\ last_call[1].looked_up # None /\ last_call[1].looked_up[1].ok
    /\ last_call[1].looked_up[1].value.version = <<"v">> \o V_0_1_10
    /\ binary = File(Prints(VersionLine(V_0_1)))
    /\ last_call[1].result = Ok(Command(BinaryPath(platform)))

\* The versions the update check of the call just made compared: what the
\* cached binary reported and what the latest release is tagged.
CurrentIs(version) == Before.binary = File(Prints(VersionLine(version)))
LatestIs(version) ==
    /\ last_call[1].looked_up # None
    /\ last_call[1].looked_up[1].ok
    /\ last_call[1].looked_up[1].value.version = version
\* Both versions are MAJOR.MINOR.PATCH once a leading "v" is stripped.
Compared ==
    /\ Checked
    /\ LatestIs(<<"v">> \o V_0_1_10) \/ LatestIs(<<"v">> \o V_0_1_9)
    /\ CurrentIs(V_0_1_9) \/ CurrentIs(<<"v">> \o V_0_1_9) \/ CurrentIs(V_0_1_10)
\* The latest release is strictly newer: 0.1.10 against 0.1.9.
NewerFound ==
    /\ Compared
    /\ LatestIs(<<"v">> \o V_0_1_10)
    /\ CurrentIs(V_0_1_9) \/ CurrentIs(<<"v">> \o V_0_1_9)

\* The update check decided to replace the binary exactly when the latest
\* release is strictly newer, and left binary and cache alone otherwise.
VersionDecision ==
    Compared =>
        /\ NewerFound <=> "remove_file" \in last_call[1].effects
        /\ ~NewerFound => /\ binary = Before.binary
                          /\ cached_binary_path = Before.cached_binary_path

\* The binary the call began with is no longer at its path: the path is
\* empty, or a download has been made to it (which is made only once the
\* path was found empty).
OldBinaryDeleted == binary = Absent \/ last_call[1].download # None

\* C21: the update check replaces the binary only for a strictly newer
\* release: the cached binary is deleted if and only if the latest version
\* is greater than the current one under semantic-version ordering; when
\* they are equal or the latest is older, binary and cache are unchanged.
C21_DeletedIffNewer ==
    Compared =>
        /\ NewerFound <=> OldBinaryDeleted
        /\ ~NewerFound => /\ binary = Before.binary
                          /\ cached_binary_path = Before.cached_binary_path


\* C22: the call in which the update check found a strictly newer release
\* never returns the old binary: it returns the path of a binary freshly
\* downloaded in this call, or an error.
C22_NewerNeverReturnsOld ==
    (NewerFound /\ last_call[1].result.ok) =>
        /\ last_call[1].download # None
        /\ binary.kind = "file"

\* <work dir>/bun-docs-mcp-proxy/<binary name> on the host.
ExpectedPath ==
    <<"/work", "bun-docs-mcp-proxy",
      IF platform[1] = "Windows" THEN "bun-docs-mcp-proxy.exe" ELSE "bun-docs-mcp-proxy">>

====
